---------------------------- MODULE Spec2Model ----------------------------
(***************************************************************************)
(* A model of kindler/retinanet/_retinanet.py: the prediction heads, the   *)
(* multi level anchor generator, the batched target computation and the    *)
(* loss computation of a RetinaNet detector.                               *)
(*                                                                         *)
(* Tensors are sequences (1-based) nested one level per dimension.  A      *)
(* scalar loss is a formal sum (a bag) of applications of a loss function  *)
(* to the rows it was handed, so that "which rows reach which loss" is     *)
(* visible in the value of the loss.                                       *)
(***************************************************************************)
EXTENDS Integers, Sequences, FiniteSets, Bags, TLC

VARIABLES
    pc,          \* where the caller is: "start", "constructed", "returned", "raised"
    ctor_args,   \* the arguments the module was constructed with
    obj,         \* the module as constructed, or the exception that was raised
    call_args,   \* the arguments of the call of forward
    ret          \* what forward returned

vars == <<pc, ctor_args, obj, call_args, ret>>

\* a variable that holds nothing yet
Unset == "unset"

\* an optional integer: None is the empty sequence, n is <<n>>
None == <<>>
Some(n) == <<n>>

(***************************************************************************)
(* Bounds of the model.                                                    *)
(***************************************************************************)
MaxAnchors == 2
MaxClasses == 2
MaxRegWeight == 2
MaxNumAnchors == 2
MaxSide == 2

(***************************************************************************)
(* Tensor helpers: what the indexing expressions of torch compute.         *)
(***************************************************************************)
\* t.reshape(-1, ...) of the two leading dimensions, row-major
Flatten2(t) ==
    IF Len(t) = 0 THEN <<>>
    ELSE LET n == Len(t[1])
         IN [i \in 1..(Len(t) * n) |-> t[((i - 1) \div n) + 1][((i - 1) % n) + 1]]

\* t[mask] for a boolean mask over the two leading dimensions of t: the
\* entries of t at the positions where mask holds, in row-major order
MaskIndex(t, mask) ==
    LET ft == Flatten2(t)
        fm == Flatten2(mask)
        F[i \in 0..Len(ft)] ==
            IF i = 0 THEN <<>>
            ELSE IF fm[i] THEN Append(F[i - 1], ft[i]) ELSE F[i - 1]
    IN F[Len(ft)]

\* anchor_states == v, elementwise
StatesEq(anchor_states, v) ==
    [b \in DOMAIN anchor_states |->
        [n \in DOMAIN anchor_states[b] |-> anchor_states[b][n] = v]]

\* anchor_states != v, elementwise
StatesNe(anchor_states, v) ==
    [b \in DOMAIN anchor_states |->
        [n \in DOMAIN anchor_states[b] |-> anchor_states[b][n] # v]]

\* t[..., -1]
LastChannel(t) ==
    [b \in DOMAIN t |-> [n \in DOMAIN t[b] |-> t[b][n][Len(t[b][n])]]]

\* t[..., :-1]
DropLastChannel(t) ==
    [b \in DOMAIN t |-> [n \in DOMAIN t[b] |-> SubSeq(t[b][n], 1, Len(t[b][n]) - 1)]]

(***************************************************************************)
(* Scalars.  FocalLoss, BCELoss and SmoothL1Loss are applied to a sequence *)
(* of prediction rows and a sequence of target rows.  The application is   *)
(* kept as an uninterpreted term; a scalar is a bag of terms (a formal sum *)
(* with natural coefficients).  A term that is exactly zero (no rows, or   *)
(* smooth-L1 of equal rows) is the empty sum.  Predictions are             *)
(* probabilities strictly between 0 and 1 (in percent), so every other     *)
(* classification term is strictly positive.                               *)
(***************************************************************************)
\* the entries of a tensor of ndim dimensions (1 or 2), row-major
RECURSIVE Ravel(_, _)
Ravel(ndim, t) ==
    IF ndim = 1 \/ Len(t) = 0 THEN t
    ELSE t[1] \o Ravel(ndim, Tail(t))

\* a boolean tensor of one dimension read as numbers
ToNumber(t) == [i \in DOMAIN t |-> IF t[i] THEN 1 ELSE 0]

LossTerm(fn, ndim, output, target) ==
    IF Len(output) = 0 \/ (fn = "SmoothL1Loss" /\ output = target)
    THEN EmptyBag
    ELSE SetToBag({[fn |-> fn, output |-> Ravel(ndim, output),
                    target |-> Ravel(ndim, target)]})

\* w * s for a natural number w
Scale(w, s) == [e \in DOMAIN s |-> w * s[e]]

\* self.cls_loss_fn(output, target), for tensors of ndim dimensions
cls_loss_fn(self, ndim, output, target) ==
    LossTerm(IF self.use_focal_loss THEN "FocalLoss" ELSE "BCELoss", ndim, output, target)

\* self.reg_loss_fn(output, target), for tensors of ndim dimensions
reg_loss_fn(self, ndim, output, target) ==
    LossTerm("SmoothL1Loss", ndim, output, target)

(***************************************************************************)
(* ComputeLosses                                                           *)
(***************************************************************************)
\* ComputeLosses.__init__
ComputeLossesNew(use_focal_loss, reg_weight, use_bg_predictor) ==
    [use_focal_loss |-> use_focal_loss,
     reg_weight |-> reg_weight,
     use_bg_predictor |-> use_bg_predictor]

\* a slip in the mask of the background loss: only the negative anchors
bg_mask_negative_only(anchor_states) == StatesEq(anchor_states, 0)

\* the mask that keeps the anchors of the background loss
bg_mask(anchor_states) == StatesNe(anchor_states, -1)

\* the mask that keeps the anchors of the foreground loss, with a
\* background predictor
fg_mask(anchor_states) == StatesEq(anchor_states, 1)

\* the mask that keeps the anchors of the classification loss, without a
\* background predictor
cls_mask(anchor_states) == StatesNe(anchor_states, -1)

\* the mask that keeps the anchors of the regression loss
reg_mask(anchor_states) == StatesNe(anchor_states, 1)

\* the classification branch with a background predictor
forward_bg(self, a) ==
    LET bg_output == MaskIndex(LastChannel(a.cls_output), bg_mask(a.anchor_states))
        bg_target == MaskIndex(StatesEq(a.anchor_states, 0), bg_mask(a.anchor_states))
        cls_output == MaskIndex(DropLastChannel(a.cls_output), fg_mask(a.anchor_states))
        cls_target == MaskIndex(a.cls_target, fg_mask(a.anchor_states))
        bg_loss == cls_loss_fn(self, 1, bg_output, ToNumber(bg_target))
        cls_loss == cls_loss_fn(self, 2, cls_output, cls_target)
    IN [bg_loss |-> bg_loss, cls_loss |-> cls_loss, total_loss |-> bg_loss (+) cls_loss]

\* the classification branch without a background predictor
forward_nobg(self, a) ==
    LET cls_output == MaskIndex(a.cls_output, cls_mask(a.anchor_states))
        cls_target == MaskIndex(a.cls_target, cls_mask(a.anchor_states))
        cls_loss == cls_loss_fn(self, 2, cls_output, cls_target)
    IN [cls_loss |-> cls_loss, total_loss |-> cls_loss]

\* the regression branch: the entries it adds to loss_dict
forward_reg(self, a, d) ==
    LET reg_output == MaskIndex(a.reg_output, reg_mask(a.anchor_states))
        reg_target == MaskIndex(a.reg_target, reg_mask(a.anchor_states))
        reg_loss == reg_loss_fn(self, 2, reg_output, reg_target)
    IN [k \in DOMAIN d \cup {"reg_loss"} |->
           IF k = "reg_loss" THEN reg_loss
           ELSE IF k = "total_loss" THEN d.total_loss (+) reg_loss
           ELSE d[k]]

\* ComputeLosses.forward
forward(self, a) ==
    forward_reg(self, a,
        IF self.use_bg_predictor THEN forward_bg(self, a) ELSE forward_nobg(self, a))

(***************************************************************************)
(* The arguments of a call of forward.                                     *)
(***************************************************************************)
AnchorStates == {-1, 0, 1}
Batches == {1, 2}
Seeds == {0, 1}
Probs == <<10, 50, 90>>      \* percent
Offsets == <<0, 1, -1>>
Bits == <<0, 1>>

\* a tensor of shape (b, n, c) with entries of vals, one tensor per seed
Pattern(seed, b, n, c, vals) ==
    [i \in 1..b |-> [j \in 1..n |-> [k \in 1..c |->
        vals[((seed + i + 2 * j + k) % Len(vals)) + 1]]]]

\* the arguments of a call: outputs and targets that differ
LossArgs(self) ==
    UNION {
        {[cls_output |-> Pattern(seed, b, n, IF self.use_bg_predictor THEN c + 1 ELSE c, Probs),
          reg_output |-> Pattern(seed, b, n, 4, Offsets),
          cls_target |-> Pattern(seed + 1, b, n, c, Bits),
          reg_target |-> Pattern(seed + 1, b, n, 4, Offsets),
          anchor_states |-> s] : s \in [1..b -> [1..n -> AnchorStates]]}
        : b \in Batches, n \in 1..MaxAnchors, c \in 1..MaxClasses, seed \in Seeds}

NewComputeLosses ==
    /\ pc = "start"
    /\ \E f \in BOOLEAN, w \in 1..MaxRegWeight, g \in BOOLEAN :
          /\ ctor_args' = [kind |-> "ComputeLosses", use_focal_loss |-> f,
                            reg_weight |-> w, use_bg_predictor |-> g]
          /\ obj' = ComputeLossesNew(f, w, g)
    /\ pc' = "constructed"
    /\ UNCHANGED <<call_args, ret>>

CallComputeLosses ==
    /\ pc = "constructed"
    /\ ctor_args.kind = "ComputeLosses"
    /\ \E a \in LossArgs(obj) :
          /\ call_args' = a
          /\ ret' = forward(obj, a)
    /\ pc' = "returned"
    /\ UNCHANGED <<ctor_args, obj>>

(***************************************************************************)
(* Claims about ComputeLosses.forward.  The claims are stated over the     *)
(* positions of anchor_states, enumerated row-major, not over masks.       *)
(***************************************************************************)
\* the (image, anchor) positions of the call, row-major
Positions ==
    LET b == Len(call_args.anchor_states)
        n == Len(call_args.anchor_states[1])
    IN [i \in 1..(b * n) |-> <<((i - 1) \div n) + 1, ((i - 1) % n) + 1>>]

StateAt(p) == call_args.anchor_states[p[1]][p[2]]

\* the positions whose anchor state is in S
PositionsIn(S) == SelectSeq(Positions, LAMBDA p : StateAt(p) \in S)

\* the entries of t at the positions ps
At(t, ps) == [i \in DOMAIN ps |-> t[ps[i][1]][ps[i][2]]]

Returned == pc = "returned" /\ ctor_args.kind = "ComputeLosses"

\* C1: the regression loss is computed over exactly the positions whose
\* anchor state is positive (1): the reg_output and reg_target rows of every
\* positive position, and of no negative or ignore position, are what the
\* regression loss function is applied to.
C1_RegLossOverPositives ==
    Returned =>
        ret.reg_loss =
            reg_loss_fn(obj, 2, At(call_args.reg_output, PositionsIn({1})),
                                   At(call_args.reg_target, PositionsIn({1})))

\* the classification total: cls_loss, plus bg_loss with a background predictor
TotalClsLoss ==
    IF obj.use_bg_predictor
    THEN ret.bg_loss (+) ret.cls_loss
    ELSE ret.cls_loss

\* C2: total_loss equals total_cls_loss + reg_weight * reg_loss, for every
\* configured reg_weight.
C2_TotalLossWeighted ==
    Returned =>
        ret.total_loss = TotalClsLoss (+) Scale(obj.reg_weight, ret.reg_loss)

\* the arguments with the rows at position p replaced by other rows
Perturbed(p, x, y) ==
    LET put(t, row) == [t EXCEPT ![p[1]][p[2]] = row]
        const(t, v) == [k \in DOMAIN t[p[1]][p[2]] |-> v]
    IN [call_args EXCEPT
           !.cls_output = put(@, const(@, Probs[x])),
           !.cls_target = put(@, const(@, Bits[y])),
           !.reg_output = put(@, const(@, Offsets[x])),
           !.reg_target = put(@, const(@, Offsets[y]))]

\* C3: an ignore anchor (-1) contributes to no loss term: replacing the
\* outputs and targets at an ignore position changes no returned loss, with
\* and without a background predictor.
C3_IgnoreContributesNothing ==
    Returned =>
        \A i \in DOMAIN Positions :
            StateAt(Positions[i]) = -1 =>
                \A x \in DOMAIN Probs, y \in DOMAIN Bits :
                    forward(obj, Perturbed(Positions[i], x, y)) = ret

\* C4: with a background predictor, bg_loss is computed over exactly the
\* non-ignore anchors, from the last channel of cls_output and a target that
\* is 1 iff the anchor state is 0; cls_loss is computed over exactly the
\* positive anchors from the class channels without the last one; and the
\* total without the regression term is bg_loss + cls_loss.
C4_BackgroundPredictorLosses ==
    (Returned /\ obj.use_bg_predictor) =>
        LET nonignore == PositionsIn({0, 1})
            positive == PositionsIn({1})
            last(row) == row[Len(row)]
            classes(row) == [k \in 1..(Len(row) - 1) |-> row[k]]
            rows == At(call_args.cls_output, nonignore)
            fg == At(call_args.cls_output, positive)
        IN /\ ret.bg_loss =
                  cls_loss_fn(obj, 1,
                      [i \in DOMAIN rows |-> last(rows[i])],
                      [i \in DOMAIN nonignore |->
                          IF StateAt(nonignore[i]) = 0 THEN 1 ELSE 0])
           /\ ret.cls_loss =
                  cls_loss_fn(obj, 2,
                      [i \in DOMAIN fg |-> classes(fg[i])],
                      At(call_args.cls_target, positive))
           /\ ret.total_loss (-) ret.reg_loss =
                  ret.bg_loss (+) ret.cls_loss

\* a call with a background predictor whose anchors include an ignore, a
\* negative and a positive one
C4_Witness ==
    /\ Returned
    /\ obj.use_bg_predictor
    /\ \A v \in AnchorStates : Len(PositionsIn({v})) > 0
    /\ ret.bg_loss # EmptyBag
    /\ ret.cls_loss # EmptyBag

(***************************************************************************)
(* Prediction heads.                                                       *)
(*                                                                         *)
(* A value before the sigmoid is lin - log(odds[1] / odds[2]) for an       *)
(* integer lin and a positive rational odds; a probability is the pair     *)
(* <<numerator, denominator>>.  The sigmoid of lin - log(n / d) is         *)
(* 1 / (1 + e^(-lin) * n / d), kept as [lin, num |-> d, den |-> n + d]:    *)
(* the rational num / den when lin = 0.                                    *)
(***************************************************************************)
Real(z) == [lin |-> z, odds |-> <<1, 1>>]

\* -math.log((1 - prior_prob) / prior_prob), with a sign slip
prior_bias_inverted(prior_prob) ==
    [lin |-> 0, odds |-> <<prior_prob[1], prior_prob[2] - prior_prob[1]>>]

\* -math.log((1 - prior_prob) / prior_prob)
prior_bias(prior_prob) ==
    [lin |-> 0, odds |-> <<prior_prob[2] - prior_prob[1], prior_prob[1]>>]

\* torch.nn.Sigmoid, elementwise
Sigmoid(v) == [lin |-> v.lin, num |-> v.odds[2], den |-> v.odds[1] + v.odds[2]]

\* whether the sigmoid output v is the probability p
IsProb(v, p) == v.lin = 0 /\ v.num * p[2] = v.den * p[1]

RECURSIVE Sum(_)
Sum(s) == IF Len(s) = 0 THEN 0 ELSE s[1] + Sum(Tail(s))

\* torch.nn.Conv2d as constructed: weights and biases that are not zero
InitWeights == <<1, -1, 2>>
Conv2d(in_channels, out_channels, seed) ==
    [weight |-> [o \in 1..out_channels |-> [i \in 1..in_channels |->
                    InitWeights[((seed + o + i) % Len(InitWeights)) + 1]]],
     bias |-> [o \in 1..out_channels |-> Real(((seed + o) % 2) + 1)]]

\* a 1x1 convolution of stride 1 applied to x of shape (batch, in, H, W)
Conv1x1(conv, x) ==
    [b \in DOMAIN x |-> [o \in DOMAIN conv.weight |->
        [r \in DOMAIN x[b][1] |-> [c \in DOMAIN x[b][1][r] |->
            [lin |-> Sum([i \in DOMAIN x[b] |-> conv.weight[o][i] * x[b][i][r][c]])
                        + conv.bias[o].lin,
             odds |-> conv.bias[o].odds]]]]]

\* torch.nn.Sigmoid on a tensor of four dimensions
Sigmoid4(t) ==
    [a \in DOMAIN t |-> [b \in DOMAIN t[a] |-> [c \in DOMAIN t[a][b] |->
        [d \in DOMAIN t[a][b][c] |-> Sigmoid(t[a][b][c][d])]]]]

\* torch.nn.Sigmoid on a tensor of three dimensions
Sigmoid3(t) ==
    [a \in DOMAIN t |-> [b \in DOMAIN t[a] |-> [c \in DOMAIN t[a][b] |->
        Sigmoid(t[a][b][c])]]]

\* t.shape for a tensor of four dimensions, none of them empty
Shape4(t) == <<Len(t), Len(t[1]), Len(t[1][1]), Len(t[1][1][1])>>

\* t.permute(dims) for a tensor of four dimensions; dims is 1-based
Permute4(t, dims) ==
    LET s == Shape4(t)
        at(idx) == t[idx[1]][idx[2]][idx[3]][idx[4]]
        \* the index into t of the entry at index j of the result
        src(j) == [d \in 1..4 |-> j[CHOOSE k \in 1..4 : dims[k] = d]]
    IN [i1 \in 1..s[dims[1]] |-> [i2 \in 1..s[dims[2]] |->
          [i3 \in 1..s[dims[3]] |-> [i4 \in 1..s[dims[4]] |->
              at(src(<<i1, i2, i3, i4>>))]]]]

\* the entries of a tensor of four dimensions in row-major order
Ravel4(t) ==
    LET s == Shape4(t)
    IN [i \in 1..(s[1] * s[2] * s[3] * s[4]) |->
          t[((i - 1) \div (s[2] * s[3] * s[4])) + 1]
           [(((i - 1) \div (s[3] * s[4])) % s[2]) + 1]
           [(((i - 1) \div s[4]) % s[3]) + 1]
           [((i - 1) % s[4]) + 1]]

\* t.reshape(batch, -1, channels) for a tensor of four dimensions
Reshape3(t, batch, channels) ==
    LET flat == Ravel4(t)
        rows == Len(flat) \div (batch * channels)
    IN [b \in 1..batch |-> [m \in 1..rows |-> [k \in 1..channels |->
          flat[((b - 1) * rows + (m - 1)) * channels + k]]]]

\* a slip in the layout: the channels are not moved last before the reshape
to_anchor_rows_no_permute(x, channels) == Reshape3(x, Len(x), channels)

\* x.permute(0, 2, 3, 1).reshape(x.shape[0], -1, channels)
to_anchor_rows(x, channels) ==
    Reshape3(Permute4(x, <<1, 3, 4, 2>>), Len(x), channels)

\* a slip in the slice: the lower end is ignored
SliceChannels_from_zero(x, lo, hi) == [b \in DOMAIN x |-> SubSeq(x[b], 1, hi)]

\* x[:, lo:hi], 0-based and half open as in the source
SliceChannels(x, lo, hi) == [b \in DOMAIN x |-> SubSeq(x[b], lo + 1, hi)]

\* the exception a constructor raised
Raised(exception) == [raised |-> exception]

\* the width of a box prediction, without the check of num_classes
total_num_bbox_unchecked(num_classes, use_class_specific_bbox) ==
    IF use_class_specific_bbox /\ num_classes # None
    THEN Some(4 * num_classes[1])
    ELSE Some(4)

\* self.total_num_bbox as the constructors compute it; None when the
\* assertion on num_classes fails
total_num_bbox(num_classes, use_class_specific_bbox) ==
    IF use_class_specific_bbox
    THEN IF num_classes = None THEN None ELSE Some(4 * num_classes[1])
    ELSE Some(4)

\* self.total_num_classes
total_num_classes(num_classes, use_bg_predictor) ==
    IF use_bg_predictor THEN num_classes + 1 ELSE num_classes

\* the input channels of the last convolution of a head
last_in_channels(a) ==
    IF a.num_layers = 0 THEN a.input_feature_size ELSE a.feature_size

\* the classifier weights and bias of conv set to the prior: rows [0, upto)
fill_prior(conv, upto, prior_prob) ==
    [weight |-> [o \in DOMAIN conv.weight |->
                    IF o <= upto THEN [i \in DOMAIN conv.weight[o] |-> 0]
                    ELSE conv.weight[o]],
     bias |-> [o \in DOMAIN conv.bias |->
                    IF o <= upto THEN prior_bias(prior_prob) ELSE conv.bias[o]]]

\* ClassificationHead.__init__
ClassificationHeadInit(a) ==
    LET tnc == total_num_classes(a.num_classes[1], a.use_bg_predictor)
        conv == Conv2d(last_in_channels(a), tnc * a.num_anchors, a.seed)
    IN [raised |-> "",
        total_num_classes |-> tnc,
        last |-> fill_prior(conv, Len(conv.weight), a.prior_prob)]

\* RegressionHead.__init__
RegressionHeadInit(a) ==
    LET tnb == total_num_bbox(a.num_classes, a.use_class_specific_bbox)
    IN IF tnb = None THEN Raised("AssertionError")
       ELSE [raised |-> "",
             total_num_bbox |-> tnb[1],
             last |-> Conv2d(last_in_channels(a), a.num_anchors * tnb[1], a.seed)]

\* CombinedHead.__init__
CombinedHeadInit(a) ==
    LET tnb == total_num_bbox(a.num_classes, a.use_class_specific_bbox)
    IN IF a.num_classes = None /\ a.use_bg_predictor THEN Raised("TypeError")
       ELSE IF tnb = None THEN Raised("AssertionError")
       ELSE IF a.num_classes = None THEN Raised("TypeError")
       ELSE LET tnc == total_num_classes(a.num_classes[1], a.use_bg_predictor)
                split_point == a.num_anchors * tnc
                conv == Conv2d(last_in_channels(a),
                               a.num_anchors * (tnc + tnb[1]), a.seed)
            IN [raised |-> "",
                total_num_classes |-> tnc,
                total_num_bbox |-> tnb[1],
                split_point |-> split_point,
                last |-> fill_prior(conv, split_point, a.prior_prob)]

\* ClassificationHead.forward, from the input of the last convolution
ClassificationHeadForward(self, hidden) ==
    LET x == Sigmoid4(Conv1x1(self.last, hidden))
    IN to_anchor_rows(x, self.total_num_classes)

\* RegressionHead.forward, from the input of the last convolution
RegressionHeadForward(self, hidden) ==
    to_anchor_rows(Conv1x1(self.last, hidden), self.total_num_bbox)

\* CombinedHead.forward, from the input of the last convolution
CombinedHeadForward(self, hidden) ==
    LET x == Conv1x1(self.last, hidden)
        classification ==
            to_anchor_rows(SliceChannels(x, 0, self.split_point), self.total_num_classes)
        regression ==
            to_anchor_rows(SliceChannels(x, self.split_point, Len(x[1])),
                           self.total_num_bbox)
    IN <<Sigmoid3(classification), regression>>

(***************************************************************************)
(* The heads as actions: a head is constructed, then called once.          *)
(***************************************************************************)
PriorProbs == {<<1, 100>>, <<1, 4>>, <<1, 2>>}
InputValues == <<-1, 0, 2>>
HiddenValues == <<0, 1, 3>>      \* after a ReLU

\* a tensor of shape (b, ch, h, w) with entries of vals, one tensor per seed
Pattern4(seed, b, ch, h, w, vals) ==
    [i \in 1..b |-> [j \in 1..ch |-> [r \in 1..h |-> [c \in 1..w |->
        vals[((seed + i + j + 2 * r + 3 * c) % Len(vals)) + 1]]]]]

HeadSizes ==
    [input_feature_size : {2}, feature_size : {1}, num_layers : {0, 1},
     num_anchors : 1..MaxNumAnchors, seed : Seeds]

\* the two records merged
Merge(r1, r2) ==
    [k \in DOMAIN r1 \cup DOMAIN r2 |-> IF k \in DOMAIN r1 THEN r1[k] ELSE r2[k]]

OptClasses == {None} \cup {Some(n) : n \in 1..MaxClasses}

\* where a constructor leaves the caller
After(h) == IF h.raised = "" THEN "constructed" ELSE "raised"

NewClassificationHead ==
    /\ pc = "start"
    /\ \E s \in HeadSizes, n \in 1..MaxClasses, g \in BOOLEAN, p \in PriorProbs :
          LET a == Merge(s, [kind |-> "ClassificationHead", num_classes |-> Some(n),
                             use_bg_predictor |-> g, prior_prob |-> p])
          IN /\ ctor_args' = a
             /\ obj' = ClassificationHeadInit(a)
             /\ pc' = After(ClassificationHeadInit(a))
    /\ UNCHANGED <<call_args, ret>>

NewRegressionHead ==
    /\ pc = "start"
    /\ \E s \in HeadSizes, n \in OptClasses, u \in BOOLEAN :
          LET a == Merge(s, [kind |-> "RegressionHead", num_classes |-> n,
                             use_class_specific_bbox |-> u])
          IN /\ ctor_args' = a
             /\ obj' = RegressionHeadInit(a)
             /\ pc' = After(RegressionHeadInit(a))
    /\ UNCHANGED <<call_args, ret>>

NewCombinedHead ==
    /\ pc = "start"
    /\ \E s \in HeadSizes, n \in OptClasses, u \in BOOLEAN, g \in BOOLEAN,
          p \in PriorProbs :
          LET a == Merge(s, [kind |-> "CombinedHead", num_classes |-> n,
                             use_class_specific_bbox |-> u,
                             use_bg_predictor |-> g, prior_prob |-> p])
          IN /\ ctor_args' = a
             /\ obj' = CombinedHeadInit(a)
             /\ pc' = After(CombinedHeadInit(a))
    /\ UNCHANGED <<call_args, ret>>

\* the inputs of a call: the features x and what the layers before the last
\* convolution make of them (x itself when there are none)
HeadInputs(a) ==
    UNION {
        LET x == Pattern4(seed, b, a.input_feature_size, h, w, InputValues)
        IN {[x |-> x,
             hidden |-> IF a.num_layers = 0 THEN x
                        ELSE Pattern4(seed, b, a.feature_size, h, w, HiddenValues)]}
        : b \in Batches, h \in 1..MaxSide, w \in 1..MaxSide, seed \in Seeds}

CallClassificationHead ==
    /\ pc = "constructed"
    /\ ctor_args.kind = "ClassificationHead"
    /\ \E in \in HeadInputs(ctor_args) :
          /\ call_args' = in
          /\ ret' = ClassificationHeadForward(obj, in.hidden)
    /\ pc' = "returned"
    /\ UNCHANGED <<ctor_args, obj>>

CallRegressionHead ==
    /\ pc = "constructed"
    /\ ctor_args.kind = "RegressionHead"
    /\ \E in \in HeadInputs(ctor_args) :
          /\ call_args' = in
          /\ ret' = RegressionHeadForward(obj, in.hidden)
    /\ pc' = "returned"
    /\ UNCHANGED <<ctor_args, obj>>

CallCombinedHead ==
    /\ pc = "constructed"
    /\ ctor_args.kind = "CombinedHead"
    /\ \E in \in HeadInputs(ctor_args) :
          /\ call_args' = in
          /\ ret' = CombinedHeadForward(obj, in.hidden)
    /\ pc' = "returned"
    /\ UNCHANGED <<ctor_args, obj>>

(***************************************************************************)
(* Claims about the prediction heads.                                      *)
(***************************************************************************)
HeadReturned(kinds) == pc = "returned" /\ ctor_args.kind \in kinds

\* what self.head(x) is for the classification and the regression head
HeadMap ==
    LET y == Conv1x1(obj.last, call_args.hidden)
    IN IF ctor_args.kind = "ClassificationHead" THEN Sigmoid4(y) ELSE y

\* the classification output of the call
ClassificationOut ==
    IF ctor_args.kind = "ClassificationHead" THEN ret ELSE ret[1]

\* the height and the width of the features of the call
FeatureH == Len(call_args.x[1][1])
FeatureW == Len(call_args.x[1][1][1])

\* C5: immediately after construction every element of the classification
\* output of ClassificationHead, and of the classification part of
\* CombinedHead, equals prior_prob for every input: the classification
\* weights of the last convolution are zero and its classification bias is
\* -log((1 - prior_prob) / prior_prob).
C5_InitialClassificationIsPrior ==
    HeadReturned({"ClassificationHead", "CombinedHead"}) =>
        LET p == ctor_args.prior_prob
            n == ctor_args.num_anchors * obj.total_num_classes
        IN /\ \A b \in DOMAIN ClassificationOut :
                \A m \in DOMAIN ClassificationOut[b] :
                    \A k \in DOMAIN ClassificationOut[b][m] :
                        IsProb(ClassificationOut[b][m][k], p)
           /\ \A o \in 1..n :
                /\ \A i \in DOMAIN obj.last.weight[o] : obj.last.weight[o][i] = 0
                /\ obj.last.bias[o].lin = 0
                /\ obj.last.bias[o].odds[1] * p[1]
                       = obj.last.bias[o].odds[2] * (p[2] - p[1])

\* a combined head with prior 1/100 called on features that are not zero
C5_Witness ==
    /\ HeadReturned({"CombinedHead"})
    /\ ctor_args.prior_prob = <<1, 100>>
    /\ \E b \in DOMAIN call_args.hidden : call_args.hidden[b][1][1][1] # 0
    /\ IsProb(ret[1][1][1][1], <<1, 100>>)

\* C6: for a last convolution output of shape (batch, num_anchors * C, H, W)
\* the output of ClassificationHead and of RegressionHead has shape
\* (batch, H * W * num_anchors, C) and its entry
\* [b, (r * W + c) * num_anchors + a, k] is the entry [b, a * C + k, r, c] of
\* the convolution output (indices from 0): cells row-major, anchors within a
\* cell in template order, channels last.
C6_AnchorMajorLayout ==
    HeadReturned({"ClassificationHead", "RegressionHead"}) =>
        LET A == ctor_args.num_anchors
            C == IF ctor_args.kind = "ClassificationHead"
                 THEN obj.total_num_classes ELSE obj.total_num_bbox
            H == FeatureH
            W == FeatureW
        IN /\ Len(HeadMap[1]) = A * C
           /\ Len(ret) = Len(call_args.x)
           /\ \A b \in DOMAIN ret :
                /\ Len(ret[b]) = H * W * A
                /\ \A r \in 1..H, c \in 1..W, a \in 1..A :
                      LET row == ret[b][((r - 1) * W + (c - 1)) * A + a]
                      IN /\ Len(row) = C
                         /\ \A k \in 1..C : row[k] = HeadMap[b][(a - 1) * C + k][r][c]

\* a regression head with several anchors called on a map with several rows
\* and columns
C6_Witness ==
    /\ HeadReturned({"RegressionHead"})
    /\ ctor_args.num_anchors > 1
    /\ FeatureH > 1
    /\ FeatureW > 1
    /\ Len(ret[1]) = FeatureH * FeatureW * ctor_args.num_anchors

\* C9: constructing RegressionHead or CombinedHead with
\* use_class_specific_bbox and without num_classes fails in the constructor:
\* no head is returned and no forward pass happens.  RegressionHead without
\* use_class_specific_bbox is constructed without num_classes and has
\* total_num_bbox 4; with use_class_specific_bbox and num_classes given
\* total_num_bbox is 4 * num_classes.
C9_MissingNumClassesRejectedEagerly ==
    pc # "start" =>
        LET a == ctor_args
            boxed == a.kind \in {"RegressionHead", "CombinedHead"}
        IN /\ (boxed /\ a.use_class_specific_bbox /\ a.num_classes = None)
                  => pc = "raised"
           /\ (a.kind = "RegressionHead" /\ ~a.use_class_specific_bbox)
                  => (pc # "raised" /\ obj.total_num_bbox = 4)
           /\ (boxed /\ a.use_class_specific_bbox /\ a.num_classes # None)
                  => (pc # "raised" /\ obj.total_num_bbox = 4 * a.num_classes[1])

\* a RegressionHead asked for class specific boxes without num_classes
C9_Witness ==
    /\ pc = "raised"
    /\ ctor_args.kind = "RegressionHead"
    /\ ctor_args.use_class_specific_bbox
    /\ ctor_args.num_classes = None
    /\ obj.raised = "AssertionError"

\* C10: the last convolution of CombinedHead has
\* num_anchors * (total_num_classes + total_num_bbox) output channels, split
\* at split_point = num_anchors * total_num_classes: the classification
\* output is built from exactly the channels [0, split_point) and the
\* regression output from exactly the channels [split_point, end), and both
\* have H * W * num_anchors anchors per image.
C10_CombinedSplit ==
    HeadReturned({"CombinedHead"}) =>
        LET A == ctor_args.num_anchors
            nc == obj.total_num_classes
            nb == obj.total_num_bbox
            H == FeatureH
            W == FeatureW
            y == Conv1x1(obj.last, call_args.hidden)
            cell(r, c, a) == ((r - 1) * W + (c - 1)) * A + a
        IN /\ Len(obj.last.weight) = A * (nc + nb)
           /\ obj.split_point = A * nc
           /\ \A b \in DOMAIN y :
                /\ Len(y[b]) = A * (nc + nb)
                /\ Len(ret[1][b]) = H * W * A
                /\ Len(ret[2][b]) = H * W * A
                /\ \A r \in 1..H, c \in 1..W, a \in 1..A :
                      /\ ret[1][b][cell(r, c, a)] =
                            [k \in 1..nc |-> Sigmoid(y[b][(a - 1) * nc + k][r][c])]
                      /\ ret[2][b][cell(r, c, a)] =
                            [k \in 1..nb |-> y[b][A * nc + (a - 1) * nb + k][r][c]]

\* a combined head with several anchors and a background channel called on
\* a map with several cells
C10_Witness ==
    /\ HeadReturned({"CombinedHead"})
    /\ ctor_args.num_anchors > 1
    /\ ctor_args.use_bg_predictor
    /\ FeatureH * FeatureW > 1
    /\ Len(ret[1][1]) = Len(ret[2][1])

(***************************************************************************)
(* Anchors.  utils.anchors is not part of the sources at hand:             *)
(* generate_anchors_at_window and shift_anchors follow the description of  *)
(* the anchor template and the anchor grid.  A scale 2 ** (i / n) is kept  *)
(* as the pair <<i, n>>, a ratio as a pair <<numerator, denominator>>, and *)
(* an anchor as its centre (doubled, so that half strides stay integers)   *)
(* with the base size, ratio and scale that fix its width and height.      *)
(***************************************************************************)
RECURSIVE Pow2(_)
Pow2(n) == IF n = 0 THEN 1 ELSE 2 * Pow2(n - 1)

\* utils_anchors.generate_anchors_at_window: one centred anchor per
\* (ratio, scale) pair, ratios outermost
generate_anchors_at_window(base_size, ratios, scales) ==
    [i \in 1..(Len(ratios) * Len(scales)) |->
        [cx2 |-> 0, cy2 |-> 0, size |-> base_size,
         ratio |-> ratios[((i - 1) \div Len(scales)) + 1],
         scale |-> scales[((i - 1) % Len(scales)) + 1]]]

\* utils_anchors.shift_anchors: the template moved to the centre of every
\* cell of the map, cells row-major, the template order kept within a cell
shift_anchors(feature_shape, stride, anchors) ==
    LET h == feature_shape[1]
        w == feature_shape[2]
        k == Len(anchors)
    IN [i \in 1..(h * w * k) |->
          LET cell == (i - 1) \div k
              t == anchors[((i - 1) % k) + 1]
          IN [t EXCEPT !.cx2 = @ + (2 * (cell % w) + 1) * stride,
                       !.cy2 = @ + (2 * (cell \div w) + 1) * stride]]

\* Anchor.__init__
AnchorInit(ratios, scales, size, stride) ==
    [stride |-> stride, anchors |-> generate_anchors_at_window(size, ratios, scales)]

\* Anchor.forward
AnchorForward(self, feature_shape) ==
    shift_anchors(feature_shape, self.stride, self.anchors)

\* str(level)
str(level) == ToString(level)

\* size = size_mult * (2 ** level)
level_size(size_mult, level) == size_mult * Pow2(level)

\* a slip in the stride of a level: linear in the level
level_stride_linear(stride_mult, level) == stride_mult * 2 * level

\* stride = stride_mult * (2 ** level)
level_stride(stride_mult, level) == stride_mult * Pow2(level)

\* [2 ** (i / scales_per_octave) for i in range(scales_per_octave)]
octave_scales(scales_per_octave) ==
    [i \in 1..scales_per_octave |-> <<i - 1, scales_per_octave>>]

\* ComputeAnchors.__init__: self.anchor, keyed by str(level)
ComputeAnchorsInit(a) ==
    LET levels == {a.feature_levels[i] : i \in DOMAIN a.feature_levels}
        keys == {str(level) : level \in levels}
        of(key) == CHOOSE level \in levels : str(level) = key
    IN [raised |-> "",
        anchor |-> [key \in keys |->
            AnchorInit(a.ratios, octave_scales(a.scales_per_octave),
                       level_size(a.size_mult, of(key)),
                       level_stride(a.stride_mult, of(key)))]]

\* feature.shape[-2:]
last_two(shape) == SubSeq(shape, Len(shape) - 1, Len(shape))

\* ComputeAnchors.forward: features maps a level to the shape of its feature;
\* a level that was not configured is a KeyError
ComputeAnchorsForward(self, features) ==
    IF \E level \in DOMAIN features : str(level) \notin DOMAIN self.anchor
    THEN Raised("KeyError")
    ELSE [level \in DOMAIN features |->
             AnchorForward(self.anchor[str(level)], last_two(features[level]))]

MaxLevel == 3
ImageSides == {4, 8}
RatioLists == {<<<<1, 1>>>>, <<<<1, 2>>, <<1, 1>>, <<2, 1>>>>}

\* the levels of S in increasing order
RECURSIVE SortedSeq(_)
SortedSeq(S) ==
    IF S = {} THEN <<>>
    ELSE LET m == CHOOSE x \in S : \A y \in S : x <= y
         IN <<m>> \o SortedSeq(S \ {m})

\* the shape (batch, channels, H, W) of the feature of a level for an image
\* of height ih and width iw
FeatureShape(level, ih, iw) ==
    LET side(n) == IF n \div Pow2(level) = 0 THEN 1 ELSE n \div Pow2(level)
    IN <<1, 1, side(ih), side(iw)>>

NewComputeAnchors ==
    /\ pc = "start"
    /\ \E L \in (SUBSET (1..MaxLevel)) \ {{}}, r \in RatioLists,
          n \in {1, 2}, m \in {1, 2} :
          LET a == [kind |-> "ComputeAnchors", feature_levels |-> SortedSeq(L),
                    ratios |-> r, scales_per_octave |-> n,
                    size_mult |-> 4, stride_mult |-> m]
          IN /\ ctor_args' = a
             /\ obj' = ComputeAnchorsInit(a)
    /\ pc' = "constructed"
    /\ UNCHANGED <<call_args, ret>>

CallComputeAnchors ==
    /\ pc = "constructed"
    /\ ctor_args.kind = "ComputeAnchors"
    /\ \E L \in SUBSET (1..MaxLevel), ih \in ImageSides, iw \in ImageSides :
          LET features == [level \in L |-> FeatureShape(level, ih, iw)]
              r == ComputeAnchorsForward(obj, features)
          IN /\ call_args' = features
             /\ ret' = r
             /\ pc' = IF \E level \in L : str(level) \notin DOMAIN obj.anchor
                      THEN "raised" ELSE "returned"
    /\ UNCHANGED <<ctor_args, obj>>

(***************************************************************************)
(* Claims about ComputeAnchors.                                            *)
(***************************************************************************)
\* C7: ComputeAnchors builds for every level of feature_levels one Anchor
\* with size size_mult * 2^level and stride stride_mult * 2^level, and for
\* features whose keys are configured levels forward returns a mapping with
\* the key set of features whose entry for a level is what that level's
\* Anchor makes of the last two dimensions (H, W) of that level's feature.
C7_AnchorsPerLevel ==
    (pc \in {"constructed", "returned"} /\ ctor_args.kind = "ComputeAnchors") =>
        LET a == ctor_args
            levels == {a.feature_levels[i] : i \in DOMAIN a.feature_levels}
            size(level) == a.size_mult * (2 ^ level)
            stride(level) == a.stride_mult * (2 ^ level)
        IN /\ DOMAIN obj.anchor = {ToString(level) : level \in levels}
           /\ \A level \in levels :
                LET anchor == obj.anchor[ToString(level)]
                IN /\ anchor.stride = stride(level)
                   /\ Len(anchor.anchors) = Len(a.ratios) * a.scales_per_octave
                   /\ \A i \in DOMAIN anchor.anchors :
                         anchor.anchors[i].size = size(level)
           /\ pc = "returned" =>
                /\ DOMAIN ret = DOMAIN call_args
                /\ \A level \in DOMAIN ret :
                      ret[level] =
                          shift_anchors(
                              <<call_args[level][3], call_args[level][4]>>,
                              stride(level),
                              generate_anchors_at_window(size(level), a.ratios,
                                  octave_scales(a.scales_per_octave)))

\* a call with the features of two levels, one of them level 3, on maps of
\* several cells
C7_Witness ==
    /\ pc = "returned"
    /\ ctor_args.kind = "ComputeAnchors"
    /\ Cardinality(DOMAIN ret) = 2
    /\ 3 \in DOMAIN ret
    /\ \E level \in DOMAIN ret : Len(ret[level]) > Len(obj.anchor[ToString(level)].anchors)

(***************************************************************************)
(* Targets.  anchor_targets_bbox and bbox_transform of utils.anchors       *)
(* follow the description of the target assigner and of the box codec.  A  *)
(* box is <<x1, y1, x2, y2>>, an annotation a box with a class label, an   *)
(* overlap the pair <<intersection, union>> and a threshold a pair         *)
(* <<numerator, denominator>>.  A regression target keeps each offset as a *)
(* quotient (the centres doubled) and each logarithm by its argument.      *)
(***************************************************************************)
Max(x, y) == IF x >= y THEN x ELSE y
Min(x, y) == IF x <= y THEN x ELSE y
Area(b) == (b[3] - b[1]) * (b[4] - b[2])

\* the intersection over union of two boxes, as <<intersection, union>>
IoU(a, g) ==
    LET iw == Max(0, Min(a[3], g[3]) - Max(a[1], g[1]))
        ih == Max(0, Min(a[4], g[4]) - Max(a[2], g[2]))
    IN <<iw * ih, Area(a) + Area(g) - iw * ih>>

\* whether the overlap o is at least, or less than, the threshold t
AtLeast(o, t) == o[1] * t[2] >= t[1] * o[2]
Less(o, t) == o[1] * t[2] < t[1] * o[2]

\* the index of the first annotation of largest overlap with the anchor a
ArgMax(a, annotations) ==
    CHOOSE j \in DOMAIN annotations :
        LET oj == IoU(a, annotations[j].box)
        IN \A k \in DOMAIN annotations :
              LET ok == IoU(a, annotations[k].box)
              IN \/ oj[1] * ok[2] > ok[1] * oj[2]
                 \/ (oj[1] * ok[2] = ok[1] * oj[2] /\ j <= k)

\* utils_anchors.anchor_targets_bbox for one image
anchor_targets_bbox(anchors, annotations, num_classes, pos_overlap, neg_overlap) ==
    LET state(a) ==
            IF Len(annotations) = 0 THEN 0
            ELSE LET o == IoU(a, annotations[ArgMax(a, annotations)].box)
                 IN IF AtLeast(o, pos_overlap) THEN 1
                    ELSE IF Less(o, neg_overlap) THEN 0
                    ELSE -1
        matched(a) == annotations[ArgMax(a, annotations)]
    IN [cls_target |-> [i \in DOMAIN anchors |-> [c \in 1..num_classes |->
            IF state(anchors[i]) = 1 /\ matched(anchors[i]).label = c - 1
            THEN 1 ELSE 0]],
        bbox_target |-> [i \in DOMAIN anchors |->
            IF state(anchors[i]) = 1 THEN matched(anchors[i]).box
            ELSE <<0, 0, 0, 0>>],
        anchor_states |-> [i \in DOMAIN anchors |-> state(anchors[i])]]

\* utils_anchors.bbox_transform: the boxes encoded against the anchors
bbox_transform(anchors, gt_boxes, mean, std) ==
    [i \in DOMAIN anchors |->
        LET a == anchors[i]
            g == gt_boxes[i]
        IN [dx |-> <<(g[1] + g[3]) - (a[1] + a[3]), 2 * (a[3] - a[1])>>,
            dy |-> <<(g[2] + g[4]) - (a[2] + a[4]), 2 * (a[4] - a[2])>>,
            dw |-> [log |-> <<g[3] - g[1], a[3] - a[1]>>],
            dh |-> [log |-> <<g[4] - g[2], a[4] - a[2]>>],
            mean |-> mean, std |-> std]]

\* ComputeTargets.__init__
ComputeTargetsInit(a) ==
    [raised |-> "",
     num_classes |-> a.num_classes,
     regression_mean |-> <<0, 1>>,
     regression_std |-> <<1, 5>>,
     positive_overlap |-> a.positive_overlap,
     negative_overlap |-> a.negative_overlap]

\* the body of the loop of ComputeTargets.forward for one image
image_targets(self, annotations, anchors) ==
    LET t == anchor_targets_bbox(anchors, annotations, self.num_classes,
                                 self.positive_overlap, self.negative_overlap)
    IN [cls_target |-> t.cls_target,
        reg_target |-> bbox_transform(anchors, t.bbox_target,
                                      self.regression_mean, self.regression_std),
        anchor_states |-> t.anchor_states]

\* a slip in the loop: the batches are built in reverse
targets_loop_reversed(self, annotations_batch, anchors) ==
    [i \in DOMAIN annotations_batch |->
        image_targets(self, annotations_batch[Len(annotations_batch) + 1 - i], anchors)]

\* the loop of ComputeTargets.forward: what is appended for each image
RECURSIVE targets_loop(_, _, _)
targets_loop(self, annotations_batch, anchors) ==
    IF Len(annotations_batch) = 0 THEN <<>>
    ELSE <<image_targets(self, Head(annotations_batch), anchors)>>
            \o targets_loop(self, Tail(annotations_batch), anchors)

\* ComputeTargets.forward; torch.stack of an empty list is a RuntimeError
ComputeTargetsForward(self, annotations_batch, anchors) ==
    LET per_image == targets_loop(self, annotations_batch, anchors)
    IN IF Len(per_image) = 0 THEN Raised("RuntimeError")
       ELSE <<[i \in DOMAIN per_image |-> per_image[i].cls_target],
              [i \in DOMAIN per_image |-> per_image[i].reg_target],
              [i \in DOMAIN per_image |-> per_image[i].anchor_states]>>

MaxImages == 2
AnchorLists ==
    {<<<<0, 0, 10, 10>>, <<10, 0, 20, 10>>>>,
     <<<<0, 0, 10, 10>>, <<0, 0, 20, 20>>, <<5, 0, 15, 10>>>>}
AnnotationLists ==
    {<<>>,
     <<[box |-> <<0, 0, 10, 10>>, label |-> 1]>>,
     <<[box |-> <<0, 0, 9, 5>>, label |-> 0], [box |-> <<10, 0, 20, 5>>, label |-> 1]>>,
     <<[box |-> <<5, 0, 15, 10>>, label |-> 0], [box |-> <<0, 0, 20, 20>>, label |-> 0]>>}

\* the sequences over S of length at most n
SeqsUpTo(S, n) == UNION {[1..k -> S] : k \in 0..n}

NewComputeTargets ==
    /\ pc = "start"
    /\ \E n \in 2..(MaxClasses + 1), t \in {<<<<1, 2>>, <<2, 5>>>>, <<<<7, 10>>, <<3, 10>>>>} :
          LET a == [kind |-> "ComputeTargets", num_classes |-> n,
                    positive_overlap |-> t[1], negative_overlap |-> t[2]]
          IN /\ ctor_args' = a
             /\ obj' = ComputeTargetsInit(a)
    /\ pc' = "constructed"
    /\ UNCHANGED <<call_args, ret>>

CallComputeTargets ==
    /\ pc = "constructed"
    /\ ctor_args.kind = "ComputeTargets"
    /\ \E batch \in SeqsUpTo(AnnotationLists, MaxImages), anchors \in AnchorLists :
          /\ call_args' = [annotations_batch |-> batch, anchors |-> anchors]
          /\ ret' = ComputeTargetsForward(obj, batch, anchors)
          /\ pc' = IF Len(batch) = 0 THEN "raised" ELSE "returned"
    /\ UNCHANGED <<ctor_args, obj>>

(***************************************************************************)
(* Claims about ComputeTargets.                                            *)
(***************************************************************************)
\* the targets of one image of the call, computed on its own
OwnTargets(annotations) ==
    LET t == anchor_targets_bbox(call_args.anchors, annotations, obj.num_classes,
                                 obj.positive_overlap, obj.negative_overlap)
    IN <<t.cls_target,
         bbox_transform(call_args.anchors, t.bbox_target,
                        obj.regression_mean, obj.regression_std),
         t.anchor_states>>

\* C8: for a batch of n >= 1 annotation sets and one anchor sequence,
\* forward returns cls, reg and states batches of leading dimension n whose
\* entry i is the assignment of image i's annotations against the anchors;
\* entry i depends on annotations i and the anchors only: exchanging two
\* images exchanges their entries in all three outputs, and other
\* annotations for image j leave entry i (i # j) as it is.
C8_BatchIsPerImageMap ==
    (pc = "returned" /\ ctor_args.kind = "ComputeTargets") =>
        LET batch == call_args.annotations_batch
            n == Len(batch)
            swap(i, j) == [batch EXCEPT ![i] = batch[j], ![j] = batch[i]]
            again(b) == ComputeTargetsForward(obj, b, call_args.anchors)
        IN /\ n >= 1
           /\ \A o \in 1..3 :
                /\ Len(ret[o]) = n
                /\ \A i \in 1..n :
                      /\ Len(ret[o][i]) = Len(call_args.anchors)
                      /\ ret[o][i] = OwnTargets(batch[i])[o]
                      /\ \A j \in 1..n :
                            /\ again(swap(i, j))[o][i] = ret[o][j]
                            /\ again(swap(i, j))[o][j] = ret[o][i]
                            /\ j # i =>
                                  \A other \in AnnotationLists :
                                      again([batch EXCEPT ![j] = other])[o][i] = ret[o][i]

\* a batch of several images with different annotations, one of them
\* without any, whose targets differ
C8_Witness ==
    /\ pc = "returned"
    /\ ctor_args.kind = "ComputeTargets"
    /\ Len(call_args.annotations_batch) >= 2
    /\ call_args.annotations_batch[1] = <<>>
    /\ ret[3][1] # ret[3][2]
    /\ \E i \in DOMAIN ret[3][2] : ret[3][2][i] = 1

(***************************************************************************)
(* The specification: one module is constructed and called once.           *)
(***************************************************************************)
Init ==
    /\ pc = "start"
    /\ ctor_args = Unset
    /\ obj = Unset
    /\ call_args = Unset
    /\ ret = Unset

Next ==
    \/ NewComputeLosses
    \/ CallComputeLosses
    \/ NewClassificationHead
    \/ NewRegressionHead
    \/ NewCombinedHead
    \/ CallClassificationHead
    \/ CallRegressionHead
    \/ CallCombinedHead
    \/ NewComputeAnchors
    \/ CallComputeAnchors
    \/ NewComputeTargets
    \/ CallComputeTargets

Spec == Init /\ [][Next]_vars

=============================================================================
